---- MODULE Spec2Model ----
(***************************************************************************)
(* Model of backend/main.py: the subscriber store, the request handlers    *)
(* (register, send-by-email, send-all, delete, unsubscribe) and the ORM    *)
(* session each handler works through.  Every handler runs on a worker     *)
(* thread; a handler is split into steps at its database round trips and   *)
(* at the call of send_email, so that handlers of different workers can    *)
(* interleave as they do under the thread pool of the web server.  Spec     *)
(* handles one request at a time, SpecConc lets the workers interleave,    *)
(* SpecSched lets the scheduler's batch run while a request is handled,    *)
(* and SpecFair is Spec with the threads of a batch kept running.          *)
(* Definitions named X_variant state X with a slip in it; the properties   *)
(* below are expected to tell X from X_variant.                            *)
(***************************************************************************)
EXTENDS Integers, Sequences, FiniteSets, TLC

(* ------------------------------ bounds -------------------------------- *)
MaxOps == 3

Procs == {1, 2}
(* the threads the scheduler runs its job on *)
Jobs == {3, 4}
Threads == Procs \cup Jobs
Emails == {"a@x.com", "b@x.com"}
(* register requests: for each address two well-formed ones that differ in
   name and birth date, and one request per way of getting the date wrong *)
GoodInputs == {<<"Alice", 6, 30>>, <<"Alicia", 2, 29>>}

BadDates == {<<2, 30>>, <<4, 31>>, <<13, 1>>, <<0, 5>>, <<3, 0>>, <<1, 32>>}

RegisterInputs ==
    {<<e, g[1], g[2], g[3]>> : e \in Emails, g \in GoodInputs}
      \cup {<<"a@x.com", "Alice", b[1], b[2]>> : b \in BadDates}

(* what send_email can do: deliver, raise, or return a falsy value without
   delivering (main.py never looks at the value returned) *)
Outcomes == {"ok", "raise", "false"}

None == 0
ValueError == "ValueError"
Secret == "secret"
NoKey == ""
NoHeader == "<absent>"
Headers == {Secret, "wrong", NoHeader}
BogusToken == None - 1

(* users: the table of subscribers, by id; nextId, nextToken: the next
   identifier and the next unsubscribe token to be handed out; clock: what
   datetime.now() returns; ADMIN_API_KEY: the configured secret; concurrent:
   whether requests overlap; background: whether the scheduler's job runs
   while requests are handled; req: what each thread is doing; resp: the
   response returned by the last step *)
VARIABLES users, nextId, nextToken, clock, ADMIN_API_KEY, concurrent,
          background, req, resp

vars == <<users, nextId, nextToken, clock, ADMIN_API_KEY, concurrent,
          background, req, resp>>

(* --------------------- request validation (pydantic) ------------------ *)
days_in_month_feb30 == <<31, 30, 31, 30, 31, 30, 31, 31, 30, 31, 30, 31>>

days_in_month == <<31, 29, 31, 30, 31, 30, 31, 31, 30, 31, 30, 31>>

birth_month_field(m) == m >= 1 /\ m <= 12

birth_day_field(d) == d >= 1 /\ d <= 31

validate_day_in_month(day, birth_month, inData) ==
    IF ~inData THEN TRUE
    ELSE ~(day > (IF birth_month \in DOMAIN days_in_month
                  THEN days_in_month[birth_month] ELSE 31))

HoroscopeRequest(m, d) ==
    /\ birth_month_field(m)
    /\ birth_day_field(d)
    /\ validate_day_in_month(d, m, birth_month_field(m))

(* zodiac_calculator.get_zodiac_sign: raises ValueError unless (m, d) is a
   date of the fixed calendar; otherwise the sign, found from the last day in
   each month of the sign that began the month before *)
Signs == <<"Aries", "Taurus", "Gemini", "Cancer", "Leo", "Virgo", "Libra",
           "Scorpio", "Sagittarius", "Capricorn", "Aquarius", "Pisces">>

ZodiacCalendar == <<31, 29, 31, 30, 31, 30, 31, 31, 30, 31, 30, 31>>

ZodiacCutoff == <<19, 18, 20, 19, 20, 20, 22, 22, 22, 22, 21, 21>>

get_zodiac_sign(m, d) ==
    IF ~(m \in 1..12 /\ d >= 1 /\ d <= ZodiacCalendar[m]) THEN ValueError
    ELSE IF d <= ZodiacCutoff[m] THEN Signs[((m + 8) % 12) + 1]
    ELSE Signs[((m + 9) % 12) + 1]

(* ------------------------------ the store ----------------------------- *)
Cols == {"id", "name", "email", "birth_month", "birth_day", "zodiac_sign",
         "subscribed_at", "last_horoscope_sent", "unsubscribed_at",
         "is_subscribed", "unsubscribe_token"}

NoRow ==
    [id |-> None, name |-> "", email |-> "", birth_month |-> None,
     birth_day |-> None, zodiac_sign |-> "", subscribed_at |-> None,
     last_horoscope_sent |-> None, unsubscribed_at |-> None,
     is_subscribed |-> None, unsubscribe_token |-> None]

LegacyRow ==
    [id |-> 1, name |-> "Alice", email |-> "a@x.com", birth_month |-> 6,
     birth_day |-> 30, zodiac_sign |-> get_zodiac_sign(6, 30),
     subscribed_at |-> 1, last_horoscope_sent |-> None,
     unsubscribed_at |-> None, is_subscribed |-> 1, unsubscribe_token |-> None]

MinOf(S) == CHOOSE x \in S : \A y \in S : x <= y

(* db.query(User).filter(User.email == e).first(): the row id, or None *)
QueryByEmail(db, e) ==
    LET hit == {i \in DOMAIN db : db[i].email = e}
    IN IF hit = {} THEN None ELSE MinOf(hit)

(* db.query(User).filter(User.unsubscribe_token == t).first() *)
QueryByToken_unfiltered(db, t) ==
    IF DOMAIN db = {} THEN None ELSE MinOf(DOMAIN db)

QueryByToken(db, t) ==
    LET hit == {i \in DOMAIN db : db[i].unsubscribe_token = t}
    IN IF hit = {} THEN None ELSE MinOf(hit)

RECURSIVE SortedSeq(_)
SortedSeq(S) == IF S = {} THEN <<>> ELSE <<MinOf(S)>> \o SortedSeq(S \ {MinOf(S)})

(* db.query(User).filter(User.is_subscribed == 1).all() *)
QueryActive(db) == SortedSeq({i \in DOMAIN db : db[i].is_subscribed = 1})

(* the columns a flush writes: those whose value differs from the loaded one *)
Dirty(loaded, new) == {c \in Cols : new[c] # loaded[c]}

(* UPDATE ... WHERE id = new.id; matching no row raises StaleDataError *)
FlushFails(db, loaded, new) == Dirty(loaded, new) # {} /\ loaded.id \notin DOMAIN db

Flush(db, loaded, new) ==
    IF Dirty(loaded, new) = {} \/ loaded.id \notin DOMAIN db THEN db
    ELSE [db EXCEPT ![loaded.id] =
            [c \in Cols |-> IF c \in Dirty(loaded, new) THEN new[c] ELSE @[c]]]

(* ---------------------------- worker state ---------------------------- *)
NoResults == [total_users |-> 0, sent |-> 0, failed |-> 0, details |-> <<>>]

Idle ==
    [pc |-> "idle", kind |-> "none", arg |-> NoRow, loaded |-> NoRow,
     ids |-> <<>>, i |-> 0, expired |-> FALSE, outcome |-> "none",
     results |-> NoResults, attempts |-> <<>>, admin_token |-> NoHeader,
     code |-> 0, success |-> FALSE, already |-> FALSE]

(* the requests accepted so far; the clock that datetime.now() reads is
   logical and moves on with every request accepted *)
ops == clock - 1

(* one call of send_email: the address and what became of the delivery *)
Attempt(email, outcome) == [email |-> email, outcome |-> outcome]

InFlight(p) == req[p].pc # "idle"

(* a request goes to the first free worker; without concurrency only while
   no other request is being handled *)
CanStart(p) ==
    /\ ~InFlight(p)
    /\ \A q \in Procs : q < p => InFlight(q)
    /\ ops < MaxOps
    /\ concurrent \/ \A q \in Procs : ~InFlight(q)
    /\ background \/ \A j \in Jobs : ~InFlight(j)

Begin(kind, arg) == [Idle EXCEPT !.kind = kind, !.arg = arg]

(* the handler returns (or raises HTTPException) and its session is closed *)
Done(r, code, success) ==
    [r EXCEPT !.pc = "done", !.code = code, !.success = success,
              !.loaded = NoRow, !.i = 0, !.expired = FALSE,
              !.outcome = "none"]

(* a worker moves on to its next step, or hands its response to the client
   and becomes free; resp is the response the last step of a worker
   returned, if it returned one *)
Put(p, s) ==
    IF s.pc = "done"
    THEN /\ req' = [req EXCEPT ![p] = Idle]
         /\ resp' = s
    ELSE /\ req' = [req EXCEPT ![p] = s]
         /\ resp' = Idle

(* verify_admin: the status it raises, or 200 when the request may proceed *)
verify_admin(key, admin_token) ==
    IF key = NoKey THEN 500
    ELSE IF admin_token # key THEN 403
    ELSE 200

(* Depends(verify_admin): the X-Admin-Token header is required, and a
   request without it is refused with a 422 before verify_admin runs *)
AdminGate(key, hdr) == IF hdr = NoHeader THEN 422 ELSE verify_admin(key, hdr)

(* a request to an administrative endpoint, carrying the header hdr *)
BeginAdmin(kind, arg, hdr) == [Begin(kind, arg) EXCEPT !.admin_token = hdr]

Init ==
    /\ users \in {<<>>, (1 :> LegacyRow)}
    /\ nextId = 2
    /\ nextToken = 1
    /\ clock = 1
    /\ ADMIN_API_KEY \in {NoKey, Secret}
    /\ concurrent = FALSE
    /\ background = FALSE
    /\ req = [p \in Threads |-> Idle]
    /\ resp = Idle

InitConc ==
    /\ users \in {<<>>, (1 :> LegacyRow)}
    /\ nextId = 2
    /\ nextToken = 1
    /\ clock = 1
    /\ ADMIN_API_KEY \in {NoKey, Secret}
    /\ concurrent = TRUE
    /\ background = FALSE
    /\ req = [p \in Threads |-> Idle]
    /\ resp = Idle

InitSched ==
    /\ users \in {<<>>, (1 :> LegacyRow)}
    /\ nextId = 2
    /\ nextToken = 1
    /\ clock = 1
    /\ ADMIN_API_KEY \in {NoKey, Secret}
    /\ concurrent = FALSE
    /\ background = TRUE
    /\ req = [p \in Threads |-> Idle]
    /\ resp = Idle

(* ------------------- POST /api/send-horoscope (register) -------------- *)
(* request validation, get_zodiac_sign and the lookup by email *)
RegisterStart(p) ==
    /\ CanStart(p)
    /\ \E inp \in RegisterInputs :
        LET email == inp[1]
            m == inp[3]
            d == inp[4]
            arg == [NoRow EXCEPT !.name = inp[2], !.email = email,
                                 !.birth_month = m, !.birth_day = d]
            r == Begin("register", arg)
            existing == QueryByEmail(users, email)
        IN Put(p,
             IF ~HoroscopeRequest(m, d) THEN Done(r, 422, FALSE)
             ELSE IF get_zodiac_sign(m, d) = ValueError THEN Done(r, 400, FALSE)
             ELSE [r EXCEPT !.pc = "reg_commit",
                            !.arg.zodiac_sign = get_zodiac_sign(m, d),
                            !.loaded = IF existing = None THEN NoRow ELSE users[existing]])
    /\ clock' = clock + 1
    /\ UNCHANGED <<users, nextId, nextToken, ADMIN_API_KEY, concurrent, background>>

(* the fields an existing record gets *)
RegisterUpdate_keepName(loaded, arg, now, token) ==
    [loaded EXCEPT
       !.birth_month = arg.birth_month,
       !.birth_day = arg.birth_day,
       !.zodiac_sign = arg.zodiac_sign,
       !.last_horoscope_sent = now,
       !.unsubscribe_token = IF @ = None THEN token ELSE @,
       !.is_subscribed = 1,
       !.unsubscribed_at = None]

RegisterUpdate_noResubscribe(loaded, arg, now, token) ==
    [loaded EXCEPT
       !.name = arg.name,
       !.birth_month = arg.birth_month,
       !.birth_day = arg.birth_day,
       !.zodiac_sign = arg.zodiac_sign,
       !.last_horoscope_sent = now,
       !.unsubscribe_token = IF @ = None THEN token ELSE @]

RegisterUpdate(loaded, arg, now, token) ==
    [loaded EXCEPT
       !.name = arg.name,
       !.birth_month = arg.birth_month,
       !.birth_day = arg.birth_day,
       !.zodiac_sign = arg.zodiac_sign,
       !.last_horoscope_sent = now,
       !.unsubscribe_token = IF @ = None THEN token ELSE @,
       !.is_subscribed = 1,
       !.unsubscribed_at = None]

(* User(...) for an unknown address; subscribed_at is the column default *)
RegisterInsert(id, arg, now, token) ==
    [id |-> id, name |-> arg.name, email |-> arg.email,
     birth_month |-> arg.birth_month, birth_day |-> arg.birth_day,
     zodiac_sign |-> arg.zodiac_sign, subscribed_at |-> now,
     last_horoscope_sent |-> now, unsubscribed_at |-> None,
     is_subscribed |-> 1, unsubscribe_token |-> token]

(* the response after send_email: its exception is caught by the generic
   handler, whose rollback finds nothing left to roll back *)
RegisterSend(r, outcome) ==
    LET s == [r EXCEPT !.attempts = Append(@, Attempt(r.arg.email, outcome))] IN
    [(IF outcome = "raise" THEN Done(s, 500, FALSE) ELSE Done(s, 200, TRUE))
       EXCEPT !.loaded = r.loaded]

(* the unique index on users.email: an INSERT of an address that some row
   already has raises IntegrityError *)
EmailTaken_noIndex(db, email) == FALSE

EmailTaken(db, email) == \E i \in DOMAIN db : db[i].email = email

(* the branch on existing_user with its commit, then generate_horoscope,
   send_email and the response *)
RegisterCommit(p) ==
    LET r == req[p]
        tokenMissing == r.loaded.unsubscribe_token = None
        upd == RegisterUpdate(r.loaded, r.arg, clock, nextToken)
        ins == RegisterInsert(nextId, r.arg, clock, nextToken)
    IN
    /\ r.pc = "reg_commit"
    /\ IF r.loaded.id # None
       THEN /\ nextToken' = IF tokenMissing THEN nextToken + 1 ELSE nextToken
            /\ nextId' = nextId
            /\ IF FlushFails(users, r.loaded, upd)
               THEN /\ users' = users
                    /\ Put(p, Done(r, 500, FALSE))
               ELSE /\ users' = Flush(users, r.loaded, upd)
                    /\ \E outcome \in Outcomes : Put(p, RegisterSend(r, outcome))
       ELSE /\ nextToken' = nextToken + 1
            /\ IF EmailTaken(users, r.arg.email)
               THEN (* IntegrityError, caught by the generic handler *)
                    /\ users' = users
                    /\ nextId' = nextId
                    /\ Put(p, Done(r, 500, FALSE))
               ELSE /\ users' = users @@ (nextId :> ins)
                    /\ nextId' = nextId + 1
                    /\ \E outcome \in Outcomes : Put(p, RegisterSend(r, outcome))
    /\ UNCHANGED <<clock, ADMIN_API_KEY, concurrent, background>>

(* --------------------- GET/POST /api/unsubscribe ---------------------- *)
(* not user.is_subscribed *)
already_unsubscribed_never(user) == FALSE

already_unsubscribed(user) == user.is_subscribed = 0

(* the token check, the lookup by token and the two early returns *)
UnsubscribeStart(p) ==
    /\ CanStart(p)
    /\ \E token \in {None, BogusToken} \cup 1..(nextToken - 1) :
        LET r == Begin("unsubscribe", [NoRow EXCEPT !.unsubscribe_token = token])
            user == QueryByToken(users, token)
        IN Put(p,
             IF token = None THEN Done(r, 400, FALSE)
             ELSE IF user = None THEN Done(r, 200, FALSE)
             ELSE IF already_unsubscribed(users[user])
                  THEN [Done(r, 200, TRUE) EXCEPT !.already = TRUE]
             ELSE [r EXCEPT !.pc = "unsub_commit", !.loaded = users[user]])
    /\ clock' = clock + 1
    /\ UNCHANGED <<users, nextId, nextToken, ADMIN_API_KEY, concurrent, background>>

(* the two assignments of the unsubscribe *)
UnsubscribeUpdate_flagOnly(user, now) == [user EXCEPT !.is_subscribed = 0]

UnsubscribeUpdate(user, now) ==
    [user EXCEPT !.is_subscribed = 0, !.unsubscribed_at = now]

UnsubscribeCommit(p) ==
    LET r == req[p]
        upd == UnsubscribeUpdate(r.loaded, clock)
    IN
    /\ r.pc = "unsub_commit"
    /\ IF FlushFails(users, r.loaded, upd)
       THEN /\ users' = users
            /\ Put(p, Done(r, 500, FALSE))
       ELSE /\ users' = Flush(users, r.loaded, upd)
            /\ Put(p, Done(r, 200, TRUE))
    /\ UNCHANGED <<nextId, nextToken, clock, ADMIN_API_KEY, concurrent, background>>

(* ----------------------- DELETE /api/user/{email} --------------------- *)
DeleteUser(p) ==
    /\ CanStart(p)
    /\ \E email \in Emails, hdr \in Headers :
        LET r == BeginAdmin("delete", [NoRow EXCEPT !.email = email], hdr)
            auth == AdminGate(ADMIN_API_KEY, hdr)
            user == QueryByEmail(users, email)
        IN IF auth # 200 THEN users' = users /\ Put(p, Done(r, auth, FALSE))
           ELSE IF user = None THEN users' = users /\ Put(p, Done(r, 404, FALSE))
           ELSE /\ users' = [i \in DOMAIN users \ {user} |-> users[i]]
                /\ Put(p, Done(r, 200, TRUE))
    /\ clock' = clock + 1
    /\ UNCHANGED <<nextId, nextToken, ADMIN_API_KEY, concurrent, background>>

(* ------------------ POST /api/send-horoscope-by-email ----------------- *)
(* the two refusals after the lookup: the status raised, or 200 *)
SendByEmailRefusal_foundOnly(db, user) == IF user = None THEN 404 ELSE 200

SendByEmailRefusal(db, user) ==
    IF user = None THEN 404
    ELSE IF db[user].is_subscribed = 0 THEN 403
    ELSE 200

(* the lookup, the two refusals, generate_horoscope and send_email *)
SendByEmailStart(p) ==
    /\ CanStart(p)
    /\ \E email \in Emails, hdr \in Headers, outcome \in Outcomes :
        LET r == BeginAdmin("send_by_email", [NoRow EXCEPT !.email = email], hdr)
            auth == AdminGate(ADMIN_API_KEY, hdr)
            user == QueryByEmail(users, email)
            refusal == SendByEmailRefusal(users, user)
            s == [r EXCEPT !.attempts = Append(@, Attempt(email, outcome))]
        IN Put(p,
             IF auth # 200 THEN Done(r, auth, FALSE)
             ELSE IF refusal # 200 THEN Done(r, refusal, FALSE)
             ELSE IF outcome = "raise" THEN Done(s, 500, FALSE)
             ELSE [s EXCEPT !.pc = "one_commit", !.loaded = users[user],
                            !.outcome = outcome])
    /\ clock' = clock + 1
    /\ UNCHANGED <<users, nextId, nextToken, ADMIN_API_KEY, concurrent, background>>

(* user.last_horoscope_sent = datetime.now(); db.commit(); the response *)
SendByEmailCommit(p) ==
    LET r == req[p]
        upd == [r.loaded EXCEPT !.last_horoscope_sent = clock]
    IN
    /\ r.pc = "one_commit"
    /\ IF r.loaded.id \notin DOMAIN users
       THEN (* StaleDataError on flush, or ObjectDeletedError on user.zodiac_sign *)
            /\ users' = users
            /\ Put(p, Done(r, 500, FALSE))
       ELSE /\ users' = Flush(users, r.loaded, upd)
            /\ Put(p, Done(r, 200, TRUE))
    /\ UNCHANGED <<nextId, nextToken, clock, ADMIN_API_KEY, concurrent, background>>

(* -------------------- POST /api/send-all-horoscopes ------------------- *)
(* the outer except: the batch is abandoned with a 500 and no results *)
Abort(r) == [Done(r, 500, FALSE) EXCEPT !.results = NoResults]

SendAllStart(p) ==
    /\ CanStart(p)
    /\ \E hdr \in Headers :
        LET r == BeginAdmin("send_all", NoRow, hdr)
            auth == AdminGate(ADMIN_API_KEY, hdr)
            active == QueryActive(users)
        IN Put(p,
             IF auth # 200 THEN Done(r, auth, FALSE)
             ELSE IF active = <<>> THEN Done(r, 200, FALSE)
             ELSE [r EXCEPT !.pc = "all_send", !.ids = active, !.i = 1,
                            !.loaded = users[active[1]],
                            !.results.total_users = Len(active)])
    /\ clock' = clock + 1
    /\ UNCHANGED <<users, nextId, nextToken, ADMIN_API_KEY, concurrent, background>>

(* one iteration of the loop up to the return of send_email: the token
   backfill with its commit and refresh, generate_horoscope, send_email *)
SendAllSend(p) ==
    LET r == req[p]
        u == r.ids[r.i]
        gone == u \notin DOMAIN users
        row == IF r.expired /\ ~gone THEN users[u] ELSE r.loaded
        backfill == row.unsubscribe_token = None
        upd == [row EXCEPT !.unsubscribe_token = nextToken]
        db == IF backfill THEN Flush(users, row, upd) ELSE users
        cur == IF backfill THEN db[u] ELSE row
    IN
    /\ r.pc = "all_send"
    /\ IF (r.expired \/ backfill) /\ gone
       THEN (* ObjectDeletedError / StaleDataError, raised again by user.email
               in the inner except *)
            /\ users' = users
            /\ nextToken' = IF ~r.expired /\ backfill THEN nextToken + 1 ELSE nextToken
            /\ Put(p, Abort(r))
       ELSE /\ users' = db
            /\ nextToken' = IF backfill THEN nextToken + 1 ELSE nextToken
            /\ \E outcome \in Outcomes :
                 Put(p,
                           [r EXCEPT !.pc = "all_record", !.loaded = cur,
                                     !.outcome = outcome,
                                     !.attempts = Append(@, Attempt(cur.email, outcome))])
    /\ UNCHANGED <<nextId, clock, ADMIN_API_KEY, concurrent, background>>

(* the store after the delivery of one iteration: last_horoscope_sent and
   commit, or the rollback of the inner except, which has nothing to undo *)
AfterDelivery_rollbackAll(db, user, outcome, now) ==
    IF outcome = "raise"
    THEN [i \in DOMAIN db |-> [db[i] EXCEPT !.last_horoscope_sent = None]]
    ELSE Flush(db, user, [user EXCEPT !.last_horoscope_sent = now])

AfterDelivery_wholeRow(db, user, outcome, now) ==
    IF outcome = "raise" \/ user.id \notin DOMAIN db THEN db
    ELSE [db EXCEPT ![user.id] = [user EXCEPT !.last_horoscope_sent = now]]

AfterDelivery(db, user, outcome, now) ==
    IF outcome = "raise" THEN db
    ELSE Flush(db, user, [user EXCEPT !.last_horoscope_sent = now])

(* the counters and the detail entry of one iteration *)
RecordOutcome_dropFailed(results, user, outcome) ==
    IF outcome = "raise" THEN results
    ELSE [results EXCEPT
            !.sent = @ + 1,
            !.details = Append(@, [email |-> user.email, name |-> user.name,
                                   status |-> "success"])]

RecordOutcome(results, user, outcome) ==
    IF outcome = "raise"
    THEN [results EXCEPT
            !.failed = @ + 1,
            !.details = Append(@, [email |-> user.email, name |-> user.name,
                                   status |-> "failed"])]
    ELSE [results EXCEPT
            !.sent = @ + 1,
            !.details = Append(@, [email |-> user.email, name |-> user.name,
                                   status |-> "success"])]

(* the return after the loop *)
SendAllResponse_allOrNothing(r) == Done(r, 200, r.results.failed = 0)

SendAllResponse(r) == Done(r, 200, TRUE)

(* for user in users: the position of the loop after an iteration *)
NextIndex_retryFailed(i, outcome) == IF outcome = "raise" THEN i ELSE i + 1

NextIndex(i, outcome) == i + 1

(* the rest of the iteration, and the return after the last subscriber *)
SendAllRecord(p) ==
    LET r == req[p]
        u == r.ids[r.i]
        next == NextIndex(r.i, r.outcome)
        db == AfterDelivery(users, r.loaded, r.outcome, clock)
        s == [r EXCEPT !.results = RecordOutcome(@, db[u], r.outcome),
                       !.outcome = "none", !.loaded = NoRow]
    IN
    /\ r.pc = "all_record"
    /\ IF u \notin DOMAIN users
       THEN /\ users' = users
            /\ Put(p, Abort(r))
       ELSE /\ users' = db
            /\ Put(p, IF next > Len(r.ids) THEN SendAllResponse(s)
                      ELSE [s EXCEPT !.pc = "all_send", !.i = next,
                                     !.expired = TRUE])
    /\ UNCHANGED <<nextId, nextToken, clock, ADMIN_API_KEY, concurrent, background>>

(* ------------------------- the scheduler ------------------------------ *)
(* the overlap guard: the job may start only while no run of it is going on *)
SingleFlight_off(running) == TRUE

SingleFlight(running) == running = {}

(* a tick of the recurring trigger: it is skipped while the previous batch
   is still running, and otherwise starts the batch over the active
   subscribers on a thread of the scheduler *)
Tick ==
    LET running == {j \in Jobs : InFlight(j)}
        free == MinOf(Jobs \ running)
        r == Begin("tick", NoRow)
        active == QueryActive(users)
    IN
    /\ ops < MaxOps
    /\ background \/ \A q \in Procs : ~InFlight(q)
    /\ running # Jobs
    /\ IF ~SingleFlight(running)
       THEN /\ req' = req
            /\ resp' = [Done(r, 0, FALSE) EXCEPT !.kind = "tick_skipped"]
       ELSE Put(free,
                IF active = <<>> THEN Done(r, 200, FALSE)
                ELSE [r EXCEPT !.pc = "all_send", !.ids = active, !.i = 1,
                               !.loaded = users[active[1]],
                               !.results.total_users = Len(active)])
    /\ clock' = clock + 1
    /\ UNCHANGED <<users, nextId, nextToken, ADMIN_API_KEY, concurrent, background>>

(* ----------------------- GET /api/users (list-all) -------------------- *)
GetAllUsers(p) ==
    /\ CanStart(p)
    /\ \E hdr \in Headers :
        LET r == BeginAdmin("get_all_users", NoRow, hdr)
            auth == AdminGate(ADMIN_API_KEY, hdr)
        IN Put(p,
             IF auth # 200 THEN Done(r, auth, FALSE)
             ELSE [Done(r, 200, TRUE) EXCEPT !.results.total_users = Cardinality(DOMAIN users)])
    /\ clock' = clock + 1
    /\ UNCHANGED <<users, nextId, nextToken, ADMIN_API_KEY, concurrent, background>>

Next ==
    \/ \E p \in Procs : RegisterStart(p)
    \/ \E p \in Procs : RegisterCommit(p)
    \/ \E p \in Procs : UnsubscribeStart(p)
    \/ \E p \in Procs : UnsubscribeCommit(p)
    \/ \E p \in Procs : DeleteUser(p)
    \/ \E p \in Procs : SendByEmailStart(p)
    \/ \E p \in Procs : SendByEmailCommit(p)
    \/ \E p \in Procs : SendAllStart(p)
    \/ \E p \in Threads : SendAllSend(p)
    \/ \E p \in Threads : SendAllRecord(p)
    \/ \E p \in Procs : GetAllUsers(p)
    \/ Tick

Spec == Init /\ [][Next]_vars

SpecConc == InitConc /\ [][Next]_vars

SpecSched == InitSched /\ [][Next]_vars

(* one request at a time, and a thread that is inside the loop of a batch
   goes on running: send_email and the pacing sleep return, and nothing
   suspends the thread for ever *)
SpecFair ==
    /\ Init
    /\ [][Next]_vars
    /\ WF_vars(\E p \in Threads : SendAllSend(p))
    /\ WF_vars(\E p \in Threads : SendAllRecord(p))

TypeOK ==
    /\ DOMAIN users \subseteq 1..(nextId - 1)
    /\ \A i \in DOMAIN users : users[i].id = i
    /\ ops \in 0..MaxOps

(* ------------------------- reading a step ----------------------------- *)
(* worker p took a step *)
Stepped(p) == req'[p] # req[p]

(* worker p returned its response in this step; resp' is that response *)
Finished(p) == req[p].pc # "idle" /\ req'[p].pc = "idle"

(* a request was accepted and answered in one step; resp' is its response *)
StartFinish == clock' = clock + 1 /\ req' = req

(* worker p accepted a request that is still being handled; req'[p] is it *)
Started(p) == req[p].pc = "idle" /\ req'[p].pc # "idle"

Range(f) == {f[k] : k \in DOMAIN f}

(* request r carried the configured key, so it passed the administrative
   gate *)
Admitted(r) == r.admin_token = Secret /\ ADMIN_API_KEY = Secret

(* ------------------------------- C1 ----------------------------------- *)
(* C1: in every reachable state, with the handlers of the two workers
   interleaved step by step, every stored subscriber has is_subscribed set
   if and only if its unsubscribed_at is null. *)
C1_SubscribedIffNotUnsubscribedAt ==
    \A i \in DOMAIN users :
        (users[i].is_subscribed # 0) <=> (users[i].unsubscribed_at = None)

(* an unsubscribe has completed while a register that had loaded the same
   record as subscribed is still about to write it *)
C1_Witness ==
    \E i \in DOMAIN users, p \in Procs :
        /\ users[i].is_subscribed = 0
        /\ users[i].unsubscribed_at # None
        /\ req[p].pc = "reg_commit"
        /\ req[p].loaded.id = i
        /\ req[p].loaded.is_subscribed = 1

(* ------------------------------- C2 ----------------------------------- *)
(* C2: a batch over N >= 1 active subscribers returns normally whatever
   deliveries fail, having called send_email exactly once for each of the N
   subscribers, in order, and recorded one detail entry for each, so that
   sent + failed = N = total_users. *)
C2_BatchAttemptsEveryone ==
    (resp.kind = "send_all" /\ resp.ids # <<>>) =>
        LET N == Len(resp.ids) IN
        /\ resp.code = 200
        /\ resp.results.total_users = N
        /\ resp.results.sent + resp.results.failed = N
        /\ Len(resp.results.details) = N
        /\ Len(resp.attempts) = N
        /\ \A k \in 1..N :
            /\ resp.ids[k] \in DOMAIN users
            /\ resp.attempts[k].email = users[resp.ids[k]].email
            /\ resp.results.details[k].email = users[resp.ids[k]].email
        /\ \A k, l \in 1..N : k # l => resp.ids[k] # resp.ids[l]

(* a batch over two subscribers returned with one delivery failed and one
   made *)
C2_Witness ==
    /\ resp.kind = "send_all"
    /\ Len(resp.ids) = 2
    /\ resp.results.sent = 1
    /\ resp.results.failed = 1
    /\ \E k \in 1..2 : resp.attempts[k].outcome = "raise"

(* ------------------------------- C3 ----------------------------------- *)
(* C3: while a batch runs, a delivery that fails changes no record and the
   batch goes on to its next subscriber (or returns 200 after the last),
   and every subscriber the batch has already recorded as delivered keeps
   the last_horoscope_sent written for it through every later step of the
   batch. *)
C3_FailureIsolated ==
    [][\A p \in Procs :
         (req[p].kind = "send_all" /\ req[p].pc # "idle") =>
            /\ \A k \in 1..Len(req[p].results.details) :
                 req[p].results.details[k].status = "success" =>
                    /\ req[p].ids[k] \in DOMAIN users'
                    /\ users[req[p].ids[k]].last_horoscope_sent # None
                    /\ users'[req[p].ids[k]].last_horoscope_sent
                         = users[req[p].ids[k]].last_horoscope_sent
            /\ (req[p].pc = "all_record" /\ req[p].outcome = "raise" /\ Stepped(p)) =>
                 /\ users' = users
                 /\ IF req[p].i < Len(req[p].ids)
                    THEN /\ req'[p].pc = "all_send"
                         /\ req'[p].i = req[p].i + 1
                    ELSE /\ Finished(p)
                         /\ resp'.code = 200
                         /\ resp'.success
                         /\ Len(resp'.results.details) = Len(req[p].ids)]_vars

(* a batch has delivered to its first subscriber, failed on its second and
   returned, the first one still carrying its timestamp *)
C3_Witness ==
    /\ resp.kind = "send_all"
    /\ Len(resp.results.details) = 2
    /\ resp.results.details[1].status = "success"
    /\ resp.results.details[2].status = "failed"
    /\ users[resp.ids[1]].last_horoscope_sent # None

(* ------------------------------- C4 ----------------------------------- *)
(* C4: in every operation that calls send_email, when the call fails (it
   raises) no record's last_horoscope_sent differs from what it was before
   the operation touched the store, and the caller is told: register and
   send-by-email do not answer 200, the batch records status "failed". *)
FailedAttempt(r) == \E k \in 1..Len(r.attempts) : r.attempts[k].outcome = "raise"

LastSentUntouched ==
    \A i \in DOMAIN users' :
        users'[i].last_horoscope_sent
           = (IF i \in DOMAIN users THEN users[i].last_horoscope_sent ELSE None)

C4_LastSentOnlyOnSuccess ==
    [][/\ \A p \in Procs :
            (req[p].pc = "reg_commit" /\ Finished(p) /\ FailedAttempt(resp')) =>
                (LastSentUntouched /\ resp'.code # 200)
       /\ (StartFinish /\ resp'.kind = "send_by_email" /\ FailedAttempt(resp')) =>
                (LastSentUntouched /\ resp'.code # 200)
       /\ \A p \in Procs :
            (req[p].pc = "all_record" /\ req[p].outcome = "raise" /\ Stepped(p)) =>
                /\ LastSentUntouched
                /\ LET res == IF Finished(p) THEN resp'.results ELSE req'[p].results
                   IN res.details[Len(res.details)].status = "failed"]_vars

(* ------------------------------- C5 ----------------------------------- *)
(* C5: an unsubscribe with the token of a subscribed record answers
   already_unsubscribed = false and leaves the record unsubscribed and
   stamped; an unsubscribe with the token of an unsubscribed record (the
   second call) answers already_unsubscribed = true and changes nothing in
   the store, so unsubscribed_at keeps the first call's stamp. *)
C5_UnsubscribeIdempotent ==
    [][/\ \A p \in Procs :
            (req[p].pc = "unsub_commit" /\ Finished(p)) =>
                LET i == req[p].loaded.id IN
                /\ users[i].is_subscribed = 1
                /\ resp'.code = 200 /\ resp'.success /\ ~resp'.already
                /\ users'[i].is_subscribed = 0
                /\ users'[i].unsubscribed_at = clock
       /\ (StartFinish /\ resp'.kind = "unsubscribe") =>
            \A i \in DOMAIN users :
                (users[i].unsubscribe_token = resp'.arg.unsubscribe_token
                   /\ resp'.arg.unsubscribe_token # None) =>
                    /\ users[i].is_subscribed = 0
                    /\ resp'.code = 200 /\ resp'.success /\ resp'.already
                    /\ users' = users
       /\ \A p \in Procs :
            (Started(p) /\ req'[p].kind = "unsubscribe") =>
                /\ users' = users
                /\ req'[p].loaded.id \in DOMAIN users
                /\ users[req'[p].loaded.id].is_subscribed = 1
                /\ users[req'[p].loaded.id].unsubscribe_token
                     = req'[p].arg.unsubscribe_token]_vars

(* the second unsubscribe has answered, for a record the first one stamped *)
C5_Witness ==
    /\ resp.kind = "unsubscribe"
    /\ resp.already
    /\ \E i \in DOMAIN users :
        /\ users[i].unsubscribe_token = resp.arg.unsubscribe_token
        /\ users[i].is_subscribed = 0
        /\ users[i].unsubscribed_at # None

(* ------------------------------- C6 ----------------------------------- *)
NoRecordHas(token) == \A i \in DOMAIN users : users[i].unsubscribe_token # token

(* C6 as claimed: an unsubscribe with any token that matches no stored
   record changes nothing in the store and answers 200 with success =
   false. *)
C6_UnknownTokenSoftFailure ==
    [][/\ \A p \in Procs :
            (Started(p) /\ req'[p].kind = "unsubscribe") =>
                ~(req'[p].arg.unsubscribe_token = None
                    \/ NoRecordHas(req'[p].arg.unsubscribe_token))
       /\ (StartFinish /\ resp'.kind = "unsubscribe"
             /\ (resp'.arg.unsubscribe_token = None
                   \/ NoRecordHas(resp'.arg.unsubscribe_token))) =>
            /\ users' = users
            /\ resp'.code = 200
            /\ ~resp'.success]_vars

(* C6 as amended: an unsubscribe with a non-empty token that matches no
   stored record changes nothing in the store and answers 200 with success =
   false; the empty token is refused with a 400 and changes nothing
   either. *)
C6_UnknownTokenSoftFailureNonEmpty ==
    [][/\ \A p \in Procs :
            (Started(p) /\ req'[p].kind = "unsubscribe") =>
                /\ req'[p].arg.unsubscribe_token # None
                /\ ~NoRecordHas(req'[p].arg.unsubscribe_token)
       /\ (StartFinish /\ resp'.kind = "unsubscribe"
             /\ resp'.arg.unsubscribe_token # None
             /\ NoRecordHas(resp'.arg.unsubscribe_token)) =>
            /\ users' = users
            /\ resp'.code = 200
            /\ ~resp'.success
       /\ (StartFinish /\ resp'.kind = "unsubscribe"
             /\ resp'.arg.unsubscribe_token = None) =>
            /\ users' = users
            /\ resp'.code = 400]_vars

(* an unknown token got its soft failure while the store holds a record
   with a token of its own *)
C6_Witness ==
    /\ resp.kind = "unsubscribe"
    /\ resp.arg.unsubscribe_token = BogusToken
    /\ resp.code = 200
    /\ ~resp.success
    /\ \E i \in DOMAIN users : users[i].unsubscribe_token # None

(* ------------------------------- C7 ----------------------------------- *)
(* C7: with one request handled at a time, no two records share an
   address; when a register call has written the store, exactly one record
   has its address and that record carries the call's name and birth data,
   in place if the address was known; no other step changes a record's
   name, birth data or address. *)
C7_OneRecordPerAddress ==
    [][/\ \A i, j \in DOMAIN users' :
            users'[i].email = users'[j].email => i = j
       /\ \A p \in Procs :
            (req[p].pc = "reg_commit" /\ Finished(p)) =>
                \E i \in DOMAIN users' :
                    /\ users'[i].email = req[p].arg.email
                    /\ users'[i].name = req[p].arg.name
                    /\ users'[i].birth_month = req[p].arg.birth_month
                    /\ users'[i].birth_day = req[p].arg.birth_day
                    /\ req[p].loaded.id # None => i = req[p].loaded.id
                    /\ req[p].loaded.id = None =>
                          (i \notin DOMAIN users
                             /\ DOMAIN users' = DOMAIN users \cup {i})
                    /\ req[p].loaded.id # None => DOMAIN users' = DOMAIN users
       /\ (~\E p \in Procs : req[p].pc = "reg_commit" /\ Finished(p)) =>
            \A i \in DOMAIN users \cap DOMAIN users' :
                /\ users'[i].email = users[i].email
                /\ users'[i].name = users[i].name
                /\ users'[i].birth_month = users[i].birth_month
                /\ users'[i].birth_day = users[i].birth_day]_vars

(* an address registered as Alice was registered again as Alicia, born on
   another day: one record, updated in place *)
C7_Witness ==
    /\ resp.kind = "register"
    /\ resp.loaded.id # None
    /\ resp.loaded.name = "Alice"
    /\ resp.loaded.birth_month = 6
    /\ resp.arg.name = "Alicia"
    /\ resp.loaded.id \in DOMAIN users
    /\ users[resp.loaded.id].name = "Alicia"
    /\ users[resp.loaded.id].birth_month = 2
    /\ Cardinality({i \in DOMAIN users : users[i].email = resp.arg.email}) = 1

(* ------------------------------- C8 ----------------------------------- *)
(* C8: with one request handled at a time, a register call (valid date) for
   an address whose record is unsubscribed leaves that record with
   is_subscribed = 1 and unsubscribed_at null, and the listing of active
   subscribers then contains it. *)
C8_ReRegisterResubscribes ==
    [][\A p \in Procs :
         (req[p].pc = "reg_commit" /\ Stepped(p) /\ req[p].loaded.id # None
            /\ req[p].loaded.id \in DOMAIN users
            /\ users[req[p].loaded.id].is_subscribed = 0) =>
               LET i == req[p].loaded.id IN
               /\ users'[i].is_subscribed = 1
               /\ users'[i].unsubscribed_at = None
               /\ i \in Range(QueryActive(users'))]_vars

(* a register call found its record unsubscribed and has answered; the
   record is active again *)
C8_Witness ==
    /\ resp.kind = "register"
    /\ resp.loaded.id # None
    /\ resp.loaded.is_subscribed = 0
    /\ resp.loaded.unsubscribed_at # None
    /\ resp.loaded.id \in DOMAIN users
    /\ users[resp.loaded.id].is_subscribed = 1
    /\ users[resp.loaded.id].unsubscribed_at = None

(* ------------------------------- C9 ----------------------------------- *)
(* the fixed calendar of the claim *)
CalendarMax(m) == IF m = 2 THEN 29 ELSE IF m \in {4, 6, 9, 11} THEN 30 ELSE 31

NotADate(m, d) == m < 1 \/ m > 12 \/ d < 1 \/ d > CalendarMax(m)

(* C9: a register request whose (month, day) is not a date of the fixed
   calendar is refused by the request validation (status 422) in the step
   that accepts it: the store is unchanged, the handler body never runs and
   send_email is not called. *)
C9_InvalidDatePersistsNothing ==
    [][/\ \A p \in Procs :
            (Started(p) /\ req'[p].kind = "register") =>
                ~NotADate(req'[p].arg.birth_month, req'[p].arg.birth_day)
       /\ (StartFinish /\ resp'.kind = "register") =>
            /\ NotADate(resp'.arg.birth_month, resp'.arg.birth_day)
            /\ resp'.code = 422
            /\ ~resp'.success
            /\ resp'.attempts = <<>>
            /\ users' = users
       /\ \A p \in Procs :
            (req[p].pc = "reg_commit" /\ Stepped(p)) =>
                ~NotADate(req[p].arg.birth_month, req[p].arg.birth_day)]_vars

(* February 30 was refused for an address that has a record *)
C9_Witness ==
    /\ resp.kind = "register"
    /\ resp.arg.birth_month = 2
    /\ resp.arg.birth_day = 30
    /\ resp.code = 422
    /\ \E i \in DOMAIN users : users[i].email = resp.arg.email

(* ------------------------------- C10 ---------------------------------- *)
(* C10: with one request handled at a time, an authorised batch answers 200
   in every case; its success flag is false exactly when the listing of
   active subscribers was empty, and then send_email was not called; for a
   non-empty listing the flag is true and the breakdown has an entry per
   subscriber, whatever deliveries failed. *)
C10_SuccessFalseOnlyWhenEmpty ==
    [][/\ (StartFinish /\ resp'.kind = "send_all" /\ Admitted(resp')) =>
            /\ QueryActive(users) = <<>>
            /\ resp'.code = 200
            /\ ~resp'.success
            /\ resp'.attempts = <<>>
            /\ users' = users
       /\ \A p \in Procs :
            (Started(p) /\ req'[p].kind = "send_all") =>
                /\ QueryActive(users) # <<>>
                /\ req'[p].ids = QueryActive(users)
       /\ \A p \in Procs :
            (Finished(p) /\ req[p].kind = "send_all") =>
                /\ resp'.code = 200
                /\ resp'.success
                /\ resp'.ids = req[p].ids
                /\ Len(resp'.results.details) = Len(req[p].ids)
                /\ resp'.results.total_users = Len(req[p].ids)]_vars

(* a batch in which every delivery failed has answered success = true *)
C10_Witness ==
    /\ resp.kind = "send_all"
    /\ resp.code = 200
    /\ resp.success
    /\ resp.results.sent = 0
    /\ resp.results.failed = Len(resp.ids)
    /\ resp.results.failed >= 1

(* ------------------------------- C11 ---------------------------------- *)
RecordsOf(email) == {i \in DOMAIN users : users[i].email = email}

(* C11: an admitted send-by-email request answers 404 when no record has
   the address and 403 when the record is unsubscribed, in both cases
   without calling send_email and without changing the store; send_email is
   called (once, for that address) only when the record is subscribed. *)
C11_SendByEmailRefusals ==
    [][/\ (StartFinish /\ resp'.kind = "send_by_email" /\ Admitted(resp')) =>
            LET hit == RecordsOf(resp'.arg.email) IN
            /\ users' = users
            /\ hit = {} => (resp'.code = 404 /\ resp'.attempts = <<>>)
            /\ (\E i \in hit : users[i].is_subscribed = 0) =>
                  (resp'.code = 403 /\ resp'.attempts = <<>>)
            /\ resp'.attempts # <<>> =>
                  \E i \in hit : users[i].is_subscribed = 1
       /\ \A p \in Procs :
            (Started(p) /\ req'[p].kind = "send_by_email") =>
                /\ users' = users
                /\ \E i \in RecordsOf(req'[p].arg.email) : users[i].is_subscribed = 1
                /\ Len(req'[p].attempts) = 1
                /\ req'[p].attempts[1].email = req'[p].arg.email]_vars

(* an admitted send-by-email for the address of an unsubscribed record was
   refused with 403 *)
C11_Witness ==
    /\ resp.kind = "send_by_email"
    /\ Admitted(resp)
    /\ resp.code = 403
    /\ resp.attempts = <<>>
    /\ \E i \in RecordsOf(resp.arg.email) :
          users[i].is_subscribed = 0 /\ users[i].unsubscribed_at # None

(* ------------------------------- C12 ---------------------------------- *)
AdminKinds == {"send_by_email", "send_all", "delete", "get_all_users"}

(* the statuses that tell the caller it is not authorised *)
ForbiddenClass == {401, 403}

(* C12: a request to an administrative endpoint (send-by-email, send-all,
   delete, list) whose X-Admin-Token is missing or differs from the
   configured key is answered with a Forbidden-class status, and every such
   request is refused while no key is configured; a refused request leaves
   the store unchanged and calls send_email for nobody, and only a request
   carrying the configured key gets into a handler. *)
C12_AdminGateRejects ==
    [][/\ (StartFinish /\ resp'.kind \in AdminKinds
             /\ ADMIN_API_KEY # NoKey /\ resp'.admin_token # ADMIN_API_KEY) =>
            /\ resp'.code \in ForbiddenClass
            /\ users' = users
            /\ resp'.attempts = <<>>
       /\ (StartFinish /\ resp'.kind \in AdminKinds /\ ADMIN_API_KEY = NoKey) =>
            /\ resp'.code # 200
            /\ ~resp'.success
            /\ users' = users
            /\ resp'.attempts = <<>>
       /\ \A p \in Procs :
            (Started(p) /\ req'[p].kind \in AdminKinds) =>
                (ADMIN_API_KEY # NoKey /\ req'[p].admin_token = ADMIN_API_KEY)]_vars

(* ------------------------------- C13 ---------------------------------- *)
RunningJobs == {j \in Jobs : InFlight(j)}

(* C13: at most one batch of the scheduler is in flight at any time: a
   batch is started by a tick only while none is running, and a tick that
   fires while one is running is skipped, leaving the running batch and the
   store as they are. *)
C13_SchedulerSingleFlight ==
    [][/\ Cardinality(RunningJobs') <= 1
       /\ \A j \in Jobs : Started(j) => RunningJobs = {}
       /\ (clock' = clock + 1 /\ RunningJobs # {}) =>
            \A j \in Jobs : req'[j] = req[j]
       /\ resp'.kind = "tick_skipped" =>
            (RunningJobs # {} /\ req' = req /\ users' = users)]_vars

(* a tick fired after a delivery of the scheduler's batch and before its
   outcome was recorded, while a request was being handled, and was
   skipped *)
C13_Witness ==
    /\ resp.kind = "tick_skipped"
    /\ \E j \in Jobs : req[j].pc = "all_record"
    /\ \E p \in Procs : InFlight(p)

(* ------------------------------- C14 ---------------------------------- *)
(* the records whose unsubscribe_token differs after the step *)
TokenWritten ==
    {i \in DOMAIN users' :
        i \notin DOMAIN users
          \/ users'[i].unsubscribe_token # users[i].unsubscribe_token}

(* C14: no step of any operation changes the id or the subscribed_at of a
   stored record, or its unsubscribe_token once it has one; a token is
   handed out only in a step that creates a record or gives a token to a
   record that had none, and to that record alone. *)
C14_IdentityFieldsFrozen ==
    [][/\ \A i \in DOMAIN users \cap DOMAIN users' :
            /\ users'[i].id = users[i].id
            /\ users'[i].subscribed_at = users[i].subscribed_at
            /\ users[i].unsubscribe_token # None =>
                  users'[i].unsubscribe_token = users[i].unsubscribe_token
       /\ \A i \in TokenWritten :
            /\ users'[i].unsubscribe_token = nextToken
            /\ nextToken' = nextToken + 1
            /\ Cardinality(TokenWritten) = 1]_vars

(* ------------------------------- C15 ---------------------------------- *)
Delivered(r) == {k \in 1..Len(r.attempts) : r.attempts[k].outcome = "ok"}

(* C15: in the result of a batch, the detail entry of each subscriber says
   "success" exactly when the message was delivered to that subscriber and
   "failed" exactly when it was not, whether send_email raised or returned
   a failure, so that sent is the number of deliveries made and failed the
   number of deliveries not made. *)
C15_StatusMatchesDelivery ==
    (resp.kind = "send_all" /\ resp.code = 200 /\ resp.ids # <<>>) =>
        /\ Len(resp.results.details) = Len(resp.attempts)
        /\ \A k \in 1..Len(resp.attempts) :
            /\ resp.results.details[k].status = "success" <=> k \in Delivered(resp)
            /\ resp.results.details[k].status = "failed" <=> k \notin Delivered(resp)
        /\ resp.results.sent = Cardinality(Delivered(resp))
        /\ resp.results.failed = Len(resp.attempts) - Cardinality(Delivered(resp))

(* ------------------------------- C16 ---------------------------------- *)
(* thread p is about to record a delivery: the write of the batch after
   send_email, or the write of send-by-email *)
Recording(p) == req[p].pc = "all_record" \/ req[p].pc = "one_commit"

(* the record that delivery went to *)
DispatchedTo(p) ==
    IF req[p].pc = "all_record" THEN req[p].ids[req[p].i] ELSE req[p].loaded.id

(* C16: with requests interleaved, the step in which a dispatch (of a batch
   or of send-by-email) records its delivery changes no column of any record
   other than last_horoscope_sent of the record dispatched to; so a record
   whose unsubscribe has completed since the dispatch loaded it still has
   is_subscribed = 0 and its unsubscribed_at after the dispatch's write. *)
C16_DispatchKeepsUnsubscribe ==
    [][\A p \in Threads :
         (Recording(p) /\ Stepped(p)) =>
            \A i \in DOMAIN users :
                /\ i \in DOMAIN users'
                /\ i # DispatchedTo(p) => users'[i] = users[i]
                /\ \A c \in Cols \ {"last_horoscope_sent"} :
                      users'[i][c] = users[i][c]
                /\ users[i].is_subscribed = 0 =>
                      /\ users'[i].is_subscribed = 0
                      /\ users'[i].unsubscribed_at = users[i].unsubscribed_at]_vars

(* a batch that had listed its only subscriber has returned after that
   subscriber's unsubscribe completed: the delivery is recorded on the
   record and the record is still unsubscribed *)
C16_Witness ==
    /\ resp.kind = "send_all"
    /\ Len(resp.ids) = 1
    /\ resp.results.sent = 1
    /\ resp.ids[1] \in DOMAIN users
    /\ users[resp.ids[1]].is_subscribed = 0
    /\ users[resp.ids[1]].unsubscribed_at # None
    /\ users[resp.ids[1]].last_horoscope_sent >= users[resp.ids[1]].unsubscribed_at

(* ------------------------------- C17 ---------------------------------- *)
(* C17: with requests interleaved, whenever a batch calls send_email for a
   subscriber, that subscriber's record is subscribed at that moment: a
   subscriber whose unsubscribe completed after the batch listed it and
   before the batch reached it gets no message. *)
C17_BatchDeliversToEligibleOnly ==
    [][\A p \in Threads :
         (req[p].pc = "all_send" /\ Stepped(p) /\ req'[p].pc = "all_record") =>
            LET u == req[p].ids[req[p].i] IN
            u \in DOMAIN users => users[u].is_subscribed = 1]_vars

(* ------------------------------- C18 ---------------------------------- *)
(* C18: with requests interleaved, no two records ever share an address: a
   register call that found no record for its address and comes to insert
   after another call has inserted that address fails with 500 and leaves
   the store unchanged. *)
C18_ConcurrentRegisterKeepsAddressUnique ==
    [][/\ \A i, j \in DOMAIN users' :
            users'[i].email = users'[j].email => i = j
       /\ \A p \in Procs :
            (req[p].pc = "reg_commit" /\ Stepped(p) /\ req[p].loaded.id = None
               /\ RecordsOf(req[p].arg.email) # {}) =>
                /\ users' = users
                /\ Finished(p)
                /\ resp'.code = 500
                /\ resp'.attempts = <<>>]_vars

(* two register calls have both found no record for the same address; one
   has just inserted it and the other is about to insert *)
C18_Witness ==
    /\ resp.kind = "register"
    /\ resp.code = 200
    /\ resp.loaded.id = None
    /\ Cardinality(RecordsOf(resp.arg.email)) = 1
    /\ \E p \in Procs :
        /\ req[p].pc = "reg_commit"
        /\ req[p].loaded.id = None
        /\ req[p].arg.email = resp.arg.email

(* ------------------------------- C19 ---------------------------------- *)
(* while a batch is in its loop, send_email has been called once for each
   subscriber the loop has reached and for no subscriber twice *)
OneAttemptEach ==
    \A p \in Threads :
        req[p].pc \in {"all_send", "all_record"} =>
            /\ Len(req[p].attempts)
                 = (IF req[p].pc = "all_record" THEN req[p].i ELSE req[p].i - 1)
            /\ Len(req[p].results.details) = req[p].i - 1
            /\ \A k, l \in 1..Len(req[p].ids) :
                 k # l => req[p].ids[k] # req[p].ids[l]

(* the batch has returned its result, with an entry for every subscriber *)
BatchReturned ==
    /\ resp.kind = "send_all"
    /\ resp.code = 200
    /\ resp.ids # <<>>
    /\ Len(resp.results.details) = Len(resp.ids)
    /\ Len(resp.attempts) = Len(resp.ids)

(* C19: with one request at a time and the batch's thread kept running, a
   batch that has entered its loop eventually returns its result, whatever
   the deliveries do; on the way send_email is called once per subscriber,
   so a failed delivery is never tried again within the batch. *)
C19_BatchTerminatesWithoutRetry ==
    /\ []OneAttemptEach
    /\ \A p \in Procs :
         (req[p].kind = "send_all" /\ InFlight(p)) ~> BatchReturned

(* a batch over two subscribers has returned; the delivery to the first
   failed and was not repeated, the second was made *)
C19_Witness ==
    /\ BatchReturned
    /\ Len(resp.ids) = 2
    /\ resp.attempts[1].outcome = "raise"
    /\ resp.attempts[2].outcome = "ok"
    /\ resp.results.details[1].status = "failed"

====
